---------------------------- MODULE Spec2Model ----------------------------
(***************************************************************************)
(* Model of the glucose exporter: the LibreLink API client                 *)
(* (api/librelink/client.go, types.go) and the Prometheus collector        *)
(* (collector/metrics.go).                                                 *)
(*                                                                         *)
(* One step of the model is one step of a goroutine running Collect or a   *)
(* direct client call: the start of the call, the sending of one HTTP      *)
(* request (prepareRequest + httpClient.Do), and the handling of the       *)
(* remote's answer (the rest of doRequest, the operation that called it    *)
(* and the collector code up to the next request).  The remote is the      *)
(* environment: it answers each request with any response of Responses.    *)
(***************************************************************************)
EXTENDS Integers, Sequences, FiniteSets, TLC

(***************************************************************************)
(* Bounds of the model.                                                    *)
(***************************************************************************)
\* longest connection list the remote returns
MaxConns == 2
\* longest historic series (graphData) the remote returns; the series it
\* returns have 0, MaxHist - 1 or MaxHist entries
MaxHist == 3
\* the per-operation request counter saturates here
MaxReq == 3

(***************************************************************************)
(* Configuration of the client: the account and the optional pre-issued    *)
(* credential triple (cli/main.go).                                        *)
(***************************************************************************)
User == "user@example.org"
Password == "secret"
PreUserId == "pre-user"
PreToken == "pre-token"

\* region codes the remote may redirect to ("" is a redirect without target)
Regions == {"", "de", "fr"}

(***************************************************************************)
(* getUrl (client.go:18-23).                                               *)
(***************************************************************************)
getUrl(region) ==
    IF region = "" THEN "https://api.libreview.io"
    ELSE "https://api-" \o region \o ".libreview.io"

(***************************************************************************)
(* Credentials (client.go:25-36).  sha256+hex is modelled as a tagged,     *)
(* injective digest of the user id.  The expiry of a ticket is "zero"      *)
(* (time.Time{}), "past" or "future": an instant before or after the       *)
(* scrapes of the behaviour.                                               *)
(***************************************************************************)
Expiries == {"zero", "past", "future"}

NoCreds == [held |-> FALSE, token |-> "", expires |-> "zero", id |-> <<>>]

Sha256Hex(s) == <<"sha256", s>>

\* AuthTicket (types.go): the members the client keeps
AuthTicket(token, expires) == [Token |-> token, Expires |-> expires]

NewLibreLinkCreds(userId, ticket) ==
    [held |-> TRUE, token |-> ticket.Token, expires |-> ticket.Expires,
     id |-> Sha256Hex(userId)]

\* WithExpiringCredentials (client.go:53-63), as applied by main.go:604-607
WithExpiringCredentials(userId, token, expiry) ==
    NewLibreLinkCreds(userId, AuthTicket(token, expiry))

\* IsAuthenticated, had it answered without looking at the credentials
IsAuthenticatedAlways(creds) == TRUE

\* IsAuthenticated, had it looked for a token instead of credentials
IsAuthenticatedByToken(creds) == creds.token # ""

\* IsAuthenticated, had it taken expired credentials for none
IsAuthenticatedUnexpired(creds) == creds.held /\ creds.expires # "past"

\* IsAuthenticated (client.go:265-267)
IsAuthenticated(creds) == creds.held

(***************************************************************************)
(* Time parsing (types.go: DateFormat "1/2/2006 3:04:05 PM", parseDate).   *)
(* A raw timestamp is the fields of the string as the remote wrote them;   *)
(* parseDate checks their ranges as time.Parse does and converts the       *)
(* 12-hour clock to the 24-hour UTC instant.                               *)
(***************************************************************************)
RawTime(mon, day, year, hour, min, sec, pm) ==
    [mon |-> mon, day |-> day, year |-> year, hour |-> hour,
     min |-> min, sec |-> sec, pm |-> pm]

ZeroTime == [year |-> 1, mon |-> 1, day |-> 1, hour |-> 0, min |-> 0, sec |-> 0]

DaysIn(mon, year) ==
    IF mon \in {4, 6, 9, 11} THEN 30
    ELSE IF mon = 2
         THEN (IF (year % 4 = 0 /\ year % 100 # 0) \/ year % 400 = 0 THEN 29 ELSE 28)
         ELSE 31

parseDate(r) ==
    IF /\ r.mon \in 1..12
       /\ r.day \in 1..DaysIn(r.mon, r.year)
       /\ r.hour \in 0..12
       /\ r.min \in 0..59
       /\ r.sec \in 0..59
    THEN [ok |-> TRUE,
          t |-> [year |-> r.year, mon |-> r.mon, day |-> r.day,
                 hour |-> IF r.pm /\ r.hour < 12 THEN r.hour + 12
                          ELSE IF (~r.pm) /\ r.hour = 12 THEN 0
                          ELSE r.hour,
                 min |-> r.min, sec |-> r.sec]]
    ELSE [ok |-> FALSE, t |-> ZeroTime]

(***************************************************************************)
(* Domain records (types.go).                                              *)
(***************************************************************************)
\* Connection (types.go: Connection): the fields the collector reads
Connection(id, patientId, firstName, lastName) ==
    [Id |-> id, PatientId |-> patientId,
     FirstName |-> firstName, LastName |-> lastName]

\* the i-th connection of the account
ConnOf(i) ==
    Connection("conn-" \o ToString(i), "patient-" \o ToString(i),
               "First" \o ToString(i), "Last" \o ToString(i))

KnownConnections == {ConnOf(i) : i \in 1..MaxConns}

\* the connection lists the remote returns: the first k connections, and all
\* of them in the opposite order
ConnectionLists ==
    {[i \in 1..k |-> ConnOf(i)] : k \in 0..MaxConns}
    \cup {[i \in 1..MaxConns |-> ConnOf(MaxConns + 1 - i)]}

\* a glucose measurement as it stands in the JSON payload (FactoryTimestamp
\* still a string)
RawMeasurement(ts, value, trend) == [ts |-> ts, Value |-> value, TrendArrow |-> trend]

\* the i-th historic entry the remote holds: its own timestamp and value; the
\* series is not in time order, so payload order is not time order
RawHistoric(i) ==
    RawMeasurement(RawTime(9, 7, 2025, ((i * 5) % 12) + 1, i, 3, i % 2 = 0),
                   90 + i * 7, 3)

\* the current reading the remote holds
RawCurrent == RawMeasurement(RawTime(9, 7, 2025, 6, 1, 3, TRUE), 104, 4)

\* an entry whose FactoryTimestamp is malformed ("19/7/2025 6:01:03 PM")
RawMalformed == RawMeasurement(RawTime(19, 7, 2025, 6, 1, 3, TRUE), 99, 3)

\* the first n historic entries, in payload order
RawSeries(n) == [i \in 1..n |-> RawHistoric(i)]

\* GlucoseMeasurement.UnmarshalJSON (types.go): parses the timestamp and
\* fails on a malformed one
DecodeMeasurement(raw) ==
    LET p == parseDate(raw.ts)
    IN  [ok |-> p.ok,
         m |-> [Timestamp |-> p.t, Value |-> raw.Value, TrendArrow |-> raw.TrendArrow]]

(***************************************************************************)
(* The "data" member of an envelope (json.RawMessage).  shape is the JSON  *)
(* value it holds: "none" (the member is missing), "null", "scalar" (a     *)
(* string or a number), "redirect", "auth", "graph" (objects) or "conns"   *)
(* (an array).                                                             *)
(***************************************************************************)
Data(shape) ==
    [shape |-> shape, redirect |-> FALSE, region |-> "",
     userId |-> "", token |-> "", expires |-> "zero", conns |-> <<>>,
     hasReading |-> FALSE, reading |-> RawCurrent, hist |-> <<>>]

RedirectData(flag, region) == [Data("redirect") EXCEPT !.redirect = flag, !.region = region]
AuthData(userId, token, expires) ==
    [Data("auth") EXCEPT !.userId = userId, !.token = token, !.expires = expires]
ConnsData(conns) == [Data("conns") EXCEPT !.conns = conns]
GraphPayload(hasReading, reading, hist) ==
    [Data("graph") EXCEPT !.hasReading = hasReading, !.reading = reading, !.hist = hist]

\* a JSON object decodes into a Go struct (unknown members are ignored,
\* missing ones stay zero) and null decodes into anything, leaving it zero;
\* an array, a scalar or no JSON at all does not decode into a struct
DecodesIntoStruct(data) == data.shape \in {"redirect", "auth", "graph", "null"}

\* getPayload into RedirecResponse (types.go: getPayload, RedirecResponse)
DecodeRedirect(data) ==
    [ok |-> DecodesIntoStruct(data), Redirect |-> data.redirect, Region |-> data.region]

\* json.Unmarshal into AuthResponse (client.go:216-219): an object without
\* the members "user" and "authTicket" leaves them zero
DecodeAuth(data) ==
    [ok |-> DecodesIntoStruct(data), userId |-> data.userId,
     ticket |-> AuthTicket(data.token, data.expires)]

\* getPayload into []Connection (client.go:232-235)
DecodeConnections(data) ==
    [ok |-> data.shape \in {"conns", "null"}, conns |-> data.conns]

\* getPayload into GraphData (client.go:248-251): every measurement of the
\* payload is decoded, and one malformed timestamp fails the whole decode
DecodeGraph(data) ==
    LET cur == DecodeMeasurement(data.reading)
        entries == [i \in 1..Len(data.hist) |-> DecodeMeasurement(data.hist[i])]
    IN  [ok |-> /\ DecodesIntoStruct(data)
                /\ (data.hasReading => cur.ok)
                /\ \A i \in 1..Len(data.hist) : entries[i].ok,
         hasReading |-> data.hasReading,
         reading |-> cur.m,
         GraphData |-> [i \in 1..Len(data.hist) |-> entries[i].m]]

(***************************************************************************)
(* What the remote may answer to a request.  http is the transport's       *)
(* outcome ("neterr": httpClient.Do fails), else the HTTP status; json     *)
(* (the status code is kept as the text of its digits)                     *)
(* tells whether the body is a JSON envelope; status, error and data are   *)
(* the envelope's members (LibreLinkResp).  error is a pointer in the      *)
(* source: present = FALSE is the nil pointer.                             *)
(***************************************************************************)
NilError == [present |-> FALSE, message |-> ""]
ErrorObj(msg) == [present |-> TRUE, message |-> msg]

Response(http, json, status, error, data) ==
    [http |-> http, json |-> json, status |-> status, error |-> error, data |-> data]

Envelope(status, error, data) == Response("200", TRUE, status, error, data)

GraphPayloads ==
    {GraphPayload(h, RawCurrent, RawSeries(n)) :
        h \in BOOLEAN, n \in {0, MaxHist - 1, MaxHist}}
    \cup {GraphPayload(TRUE, RawMalformed, RawSeries(1)),
          GraphPayload(TRUE, RawCurrent, <<RawHistoric(1), RawMalformed>>)}

Payloads ==
    {Data("none"), Data("null"), Data("scalar")}
    \cup {RedirectData(TRUE, r) : r \in Regions}
    \cup {RedirectData(FALSE, "de")}
    \cup {AuthData("user-1", "token-1", "future")}
    \cup {ConnsData(q) : q \in ConnectionLists}
    \cup GraphPayloads

Responses ==
    {Response("neterr", FALSE, 0, NilError, Data("none")),
     Response("500", FALSE, 0, NilError, Data("none")),
     Response("200", FALSE, 0, NilError, Data("none"))}
    \cup {Envelope(2, ErrorObj("rejected"), Data("none")),
          Envelope(4, ErrorObj("locked"), RedirectData(TRUE, "de")),
          Envelope(2, NilError, Data("none"))}
    \cup {Envelope(0, NilError, d) : d \in Payloads}

(***************************************************************************)
(* Requests (client.go:111-143, prepareRequest).                           *)
(***************************************************************************)
\* an io.Reader handed to doRequest: nil, or a bytes.Buffer with its unread
\* content
NilReader == [isNil |-> TRUE, unread |-> <<>>]
Buffer(content) == [isNil |-> FALSE, unread |-> content]

\* json.Marshal(AuthRequest{Email, Password}) (client.go:201-209)
LoginBody == <<[Email |-> User, Password |-> Password]>>

NoRequest ==
    [method |-> "", url |-> "", endpoint |-> "", body |-> <<>>,
     product |-> "", version |-> "", hasAuth |-> FALSE,
     accountId |-> <<>>, authorization |-> ""]

\* prepareRequest, had it written the Authorization header whatever the
\* credentials
prepareRequestBearerAlways(url, creds, method, endpoint, reader) ==
    [method |-> method,
     url |-> url \o "/" \o endpoint,
     endpoint |-> endpoint,
     body |-> reader.unread,
     product |-> "llu.android",
     version |-> "4.16.0",
     hasAuth |-> TRUE,
     accountId |-> IF creds.held THEN creds.id ELSE <<>>,
     authorization |-> "Bearer " \o creds.token]

\* prepareRequest followed by the transport's reading of the body: the request
\* as it goes on the wire.  http.NewRequestWithContext takes what the reader
\* still holds as the body.
prepareRequest(url, creds, method, endpoint, reader) ==
    [method |-> method,
     url |-> url \o "/" \o endpoint,
     endpoint |-> endpoint,
     body |-> reader.unread,
     product |-> "llu.android",
     version |-> "4.16.0",
     hasAuth |-> creds.held,
     accountId |-> IF creds.held THEN creds.id ELSE <<>>,
     authorization |-> IF creds.held THEN "Bearer " \o creds.token ELSE ""]

\* what identifies a request as "the same request": its method, endpoint and
\* body
Sent(req) == [method |-> req.method, endpoint |-> req.endpoint, body |-> req.body]

\* a reader after the transport has written the request: a bytes.Buffer is
\* drained by the write, a nil reader stays nil
Drained(reader) == [reader EXCEPT !.unread = <<>>]

(***************************************************************************)
(* handleRedirect (client.go:90-109): whether the envelope asks for a      *)
(* redirect, whether that fails, and the base URL afterwards.              *)
(***************************************************************************)
\* handleRedirect without the check of lines 99-101
handleRedirectNoRegionCheck(data, url) ==
    LET r == DecodeRedirect(data)
    IN  IF (~r.ok) \/ (~r.Redirect)
        THEN [redirected |-> FALSE, failed |-> FALSE, baseUrl |-> url]
        ELSE [redirected |-> TRUE, failed |-> FALSE, baseUrl |-> getUrl(r.Region)]

\* handleRedirect without the assignment of line 107
handleRedirectKeepsUrl(data, url) ==
    LET r == DecodeRedirect(data)
    IN  IF (~r.ok) \/ (~r.Redirect)
        THEN [redirected |-> FALSE, failed |-> FALSE, baseUrl |-> url]
        ELSE IF r.Region = ""
        THEN [redirected |-> FALSE, failed |-> TRUE, baseUrl |-> url]
        ELSE [redirected |-> TRUE, failed |-> FALSE, baseUrl |-> url]

handleRedirect(data, url) ==
    LET r == DecodeRedirect(data)
    IN  IF (~r.ok) \/ (~r.Redirect)
        THEN [redirected |-> FALSE, failed |-> FALSE, baseUrl |-> url]
        ELSE IF r.Region = ""
        THEN [redirected |-> FALSE, failed |-> TRUE, baseUrl |-> url]
        ELSE [redirected |-> TRUE, failed |-> FALSE, baseUrl |-> getUrl(r.Region)]

(***************************************************************************)
(* doRequest after httpClient.Do (client.go:159-195): what it does with    *)
(* the remote's answer.  kind is "error" (an error is returned), "panic"   *)
(* (nil pointer dereference of libreResp.Error at line 181), "retry" (the  *)
(* recursive call of line 192) or "return" (the envelope is returned).     *)
(* inspected tells whether handleRedirect ran.                             *)
(***************************************************************************)
Outcome(kind, err, message, inspected, url, data) ==
    [kind |-> kind, err |-> err, message |-> message,
     inspected |-> inspected, baseUrl |-> url, data |-> data]

NoOutcome == Outcome("none", "", "", FALSE, "", Data("none"))

doRequest(resp, url) ==
    IF resp.http = "neterr"
    THEN Outcome("error", "request failed", "", FALSE, url, Data("none"))
    ELSE IF resp.http # "200"
    THEN Outcome("error", "unexpected status code", resp.http, FALSE, url, Data("none"))
    ELSE IF ~resp.json
    THEN Outcome("error", "failed to decode response body", "", FALSE, url, Data("none"))
    ELSE IF resp.status # 0
    THEN (IF resp.error.present
          THEN Outcome("error", "API error", resp.error.message, FALSE, url, Data("none"))
          ELSE Outcome("panic", "nil pointer dereference", "", FALSE, url, Data("none")))
    ELSE LET h == handleRedirect(resp.data, url)
         IN  IF h.failed
             THEN Outcome("error", "failed to handle redirect",
                          "redirect requested but no region provided",
                          TRUE, h.baseUrl, Data("none"))
             ELSE IF h.redirected
             THEN Outcome("retry", "", "", TRUE, h.baseUrl, Data("none"))
             ELSE Outcome("return", "", "", TRUE, h.baseUrl, resp.data)

(***************************************************************************)
(* The operations' handling of doRequest's result.                         *)
(***************************************************************************)
NoGraph ==
    [ok |-> FALSE, hasReading |-> FALSE, reading |-> DecodeMeasurement(RawCurrent).m,
     GraphData |-> <<>>]

\* Authenticate without the assignment of line 221
AuthenticateNoStore(out) ==
    LET a == DecodeAuth(out.data)
    IN  IF out.kind = "error" THEN [failed |-> TRUE, creds |-> NoCreds]
        ELSE IF ~a.ok THEN [failed |-> TRUE, creds |-> NoCreds]
        ELSE [failed |-> FALSE, creds |-> NoCreds]

\* Authenticate (client.go:211-222): the error it returns, or the credentials
\* it stores
Authenticate(out) ==
    LET a == DecodeAuth(out.data)
    IN  IF out.kind = "error" THEN [failed |-> TRUE, creds |-> NoCreds]
        ELSE IF ~a.ok THEN [failed |-> TRUE, creds |-> NoCreds]
        ELSE [failed |-> FALSE, creds |-> NewLibreLinkCreds(a.userId, a.ticket)]

\* GetConnections (client.go:225-238)
GetConnections(out) ==
    LET c == DecodeConnections(out.data)
    IN  IF out.kind = "error" THEN [failed |-> TRUE, conns |-> <<>>]
        ELSE IF ~c.ok THEN [failed |-> TRUE, conns |-> <<>>]
        ELSE [failed |-> FALSE, conns |-> c.conns]

\* getGraphData (client.go:240-254)
getGraphData(out) ==
    LET g == DecodeGraph(out.data)
    IN  IF out.kind = "error" THEN [failed |-> TRUE, data |-> NoGraph]
        ELSE IF ~g.ok THEN [failed |-> TRUE, data |-> NoGraph]
        ELSE [failed |-> FALSE, data |-> g]

\* the endpoint of getGraphData (client.go:241)
GraphEndpoint(connectionId) == "llu/connections/" \o connectionId \o "/graph"

(***************************************************************************)
(* collectGlucose after the fetch (metrics.go:69-113): the metrics it      *)
(* sends on the channel, in order.                                         *)
(***************************************************************************)
Metric(desc, ts, value, connection) ==
    [desc |-> desc, ts |-> ts, value |-> value,
     patient_id |-> connection.PatientId,
     patient_name |-> connection.FirstName \o " " \o connection.LastName]

Historic(connection, g) ==
    [i \in 1..Len(g.GraphData) |->
        Metric("glucose_librelink_historic_level", g.GraphData[i].Timestamp,
               g.GraphData[i].Value, connection)]

\* collectGlucose without the trend metric of lines 91-100
collectGlucoseNoTrend(connection, res) ==
    IF res.failed \/ ~res.data.hasReading THEN <<>>
    ELSE <<Metric("glucose_librelink_level_mmoll", res.data.reading.Timestamp,
                  res.data.reading.Value, connection)>>
         \o Historic(connection, res.data)

collectGlucose(connection, res) ==
    IF res.failed THEN <<>>
    ELSE IF ~res.data.hasReading THEN <<>>
    ELSE <<Metric("glucose_librelink_level_mmoll", res.data.reading.Timestamp,
                  res.data.reading.Value, connection),
           Metric("glucose_librelink_trend", res.data.reading.Timestamp,
                  res.data.reading.TrendArrow, connection)>>
         \o Historic(connection, res.data)

\* the loop, had a failed fetch ended it
MoreConnectionsUnlessFailed(conns, idx, res) == idx < Len(conns) /\ ~res.failed

\* the range loop of Collect (metrics.go:61-63) goes on to the next
\* connection whatever collectGlucose did with this one (metrics.go:69-71)
MoreConnections(conns, idx, res) == idx < Len(conns)

(***************************************************************************)
(* State.                                                                  *)
(*   baseUrl, creds   the client's fields (LibreLinkClient)                *)
(*   preIssued        whether the client was built with                    *)
(*                    WithExpiringCredentials                              *)
(*   crashed          the process has died of a panic                      *)
(*   scr[p]           goroutine p's call in progress: its position (pc),   *)
(*                    the entry point (call), the client operation (op),   *)
(*                    the arguments doRequest was called with (method,     *)
(*                    endpoint, body), the requests sent for the operation *)
(*                    (nreq, saturating; first, last), the last answer     *)
(*                    and what doRequest made of it (got, out), the        *)
(*                    connection list and the loop index (conns, idx), the *)
(*                    metrics sent on the channel (obs), the record of the *)
(*                    operations ended so far (log) and whether the        *)
(*                    caller of the scrape has given up on it (cancelled); *)
(*                    what the login of this scrape was issued (login) and *)
(*                    the log and the metrics of the scrape before, when   *)
(*                    this scrape follows one (prev).                      *)
(*   remote           what the remote answers in this behaviour            *)
(***************************************************************************)
VARIABLES baseUrl, creds, preIssued, crashed, scr, remote

vars == <<baseUrl, creds, preIssued, crashed, scr, remote>>

Procs == {1, 2}
\* scrapes follow one another: one goroutine runs them
Sequential == {1}

NoResponse == Response("none", FALSE, 0, NilError, Data("none"))

NetworkError == Response("neterr", FALSE, 0, NilError, Data("none"))

\* the endpoints the client requests
LoginEndpoint == "llu/auth/login"
ConnectionsEndpoint == "llu/connections"
GraphEndpoints == {GraphEndpoint(c.PatientId) : c \in KnownConnections}
Endpoints == {LoginEndpoint, ConnectionsEndpoint} \cup GraphEndpoints

(***************************************************************************)
(* The remote of a behaviour.  mode "any": every request is answered with  *)
(* any response of Responses; "overlap": with any response of              *)
(* OverlapResponses; "fixed": a request is answered by its endpoint,       *)
(* every time with the same response (answers).                           *)
(***************************************************************************)
Remote(mode, answers) == [mode |-> mode, answers |-> answers]

AnyRemote == Remote("any", [e \in Endpoints |-> NoResponse])

\* what the remote answers while two scrapes overlap: two logins that issue
\* different credentials, a connection list, graph data, a network failure
\* and a rejection
OverlapResponses ==
    {NetworkError,
     Envelope(2, ErrorObj("rejected"), Data("none")),
     Envelope(0, NilError, AuthData("user-1", "token-1", "future")),
     Envelope(0, NilError, AuthData("user-2", "token-2", "future")),
     Envelope(0, NilError, ConnsData(<<ConnOf(1)>>)),
     Envelope(0, NilError, GraphPayload(TRUE, RawCurrent, RawSeries(1)))}

OverlapRemote == Remote("overlap", [e \in Endpoints |-> NoResponse])

\* the responses httpClient.Do may give to a request for endpoint
Answers(r, endpoint) ==
    CASE r.mode = "any" -> Responses
      [] r.mode = "overlap" -> OverlapResponses
      [] OTHER -> {r.answers[endpoint]}

\* what a login was issued: the decoded AuthResponse
NoLogin == [ok |-> FALSE, userId |-> "", ticket |-> AuthTicket("", "zero")]

\* the record of the scrape before
NoPrev == [set |-> FALSE, log |-> <<>>, obs |-> <<>>]

IdleScrape ==
    [pc |-> "idle", call |-> "none", op |-> "none",
     method |-> "", endpoint |-> "", body |-> NilReader,
     nreq |-> 0, first |-> Sent(NoRequest), last |-> NoRequest,
     got |-> NoResponse, out |-> NoOutcome,
     heldAtStart |-> FALSE, conns |-> <<>>, idx |-> 0,
     obs |-> <<>>, log |-> <<>>, cancelled |-> FALSE,
     login |-> NoLogin, prev |-> NoPrev]

\* an entry of log: operation op (on connection conn, for a fetch) ended,
\* with an error (failed) or with data, and sent the metrics emitted
LogEntry(op, conn, failed, data, emitted) ==
    [op |-> op, conn |-> conn, failed |-> failed, data |-> data, emitted |-> emitted]

NoConn == Connection("", "", "", "")

\* the start of a call of doRequest(ctx, method, endpoint, body)
CallDoRequest(s, op, method, endpoint, body) ==
    [s EXCEPT !.pc = "send", !.op = op, !.method = method,
              !.endpoint = endpoint, !.body = body, !.nreq = 0,
              !.first = Sent(NoRequest), !.last = NoRequest,
              !.got = NoResponse, !.out = NoOutcome]

\* the call returns to its caller: doRequest's locals are gone
Finish(s) == [s EXCEPT !.pc = "done", !.got = NoResponse, !.out = NoOutcome]

Logged(s, entry) == [s EXCEPT !.log = Append(@, entry)]

Init ==
    /\ baseUrl = getUrl("")
    /\ preIssued \in BOOLEAN
    /\ creds \in IF preIssued
                 THEN {WithExpiringCredentials(PreUserId, PreToken, e) : e \in Expiries}
                 ELSE {NoCreds}
    /\ crashed = FALSE
    /\ scr = [p \in Procs |-> IdleScrape]
    /\ remote = AnyRemote

(***************************************************************************)
(* Collect up to its first request (metrics.go:47-56).                     *)
(***************************************************************************)
CollectStart(p) ==
    /\ ~crashed
    /\ scr[p].pc \in {"idle", "done"}
    /\ LET s == [IdleScrape EXCEPT !.call = "collect", !.heldAtStart = creds.held]
       IN  scr' = [scr EXCEPT ![p] =
                     IF ~IsAuthenticated(creds)
                     THEN CallDoRequest(s, "auth", "POST", "llu/auth/login",
                                        Buffer(LoginBody))
                     ELSE CallDoRequest(s, "conns", "GET", "llu/connections",
                                        NilReader)]
    /\ UNCHANGED <<baseUrl, creds, preIssued, crashed, remote>>

(***************************************************************************)
(* A direct call of GetLatestReading (client.go:256-263).                  *)
(***************************************************************************)
LatestStart(p) ==
    /\ ~crashed
    /\ scr[p].pc \in {"idle", "done"}
    /\ \E c \in KnownConnections :
          scr' = [scr EXCEPT ![p] =
                    CallDoRequest([IdleScrape EXCEPT !.call = "latest",
                                                     !.heldAtStart = creds.held,
                                                     !.conns = <<c>>, !.idx = 1],
                                  "graph", "GET", GraphEndpoint(c.PatientId),
                                  NilReader)]
    /\ UNCHANGED <<baseUrl, creds, preIssued, crashed, remote>>

(***************************************************************************)
(* The caller of a scrape in progress gives up on it: its deadline passes  *)
(* or its request is cancelled.  Collect is handed no context              *)
(* (metrics.go:47), so this is all that happens.                           *)
(***************************************************************************)
Cancel(p) ==
    /\ ~crashed
    /\ scr[p].call = "collect"
    /\ scr[p].pc \in {"send", "await", "ret"}
    /\ ~scr[p].cancelled
    /\ scr' = [scr EXCEPT ![p] = [@ EXCEPT !.cancelled = TRUE]]
    /\ UNCHANGED <<baseUrl, creds, preIssued, crashed, remote>>

\* whether the context the requests are made with is done: it is
\* context.Background() (metrics.go:48), which never is, whatever the caller
\* signals
ctxDone(cancelled) == FALSE

(***************************************************************************)
(* doRequest up to httpClient.Do (client.go:145-159): the request is built *)
(* against the current base URL and credentials and sent; httpClient.Do    *)
(* fails at once when the request's context is done.                       *)
(***************************************************************************)
Send(p) ==
    /\ ~crashed
    /\ scr[p].pc = "send"
    /\ LET s == scr[p]
           req == prepareRequest(baseUrl, creds, s.method, s.endpoint, s.body)
       IN  scr' = [scr EXCEPT ![p] =
                     IF ctxDone(s.cancelled)
                     THEN [s EXCEPT !.pc = "ret",
                                    !.out = Outcome("error", "request failed",
                                                    "context canceled", FALSE,
                                                    baseUrl, Data("none"))]
                     ELSE [s EXCEPT !.pc = "await",
                                    !.body = Drained(s.body),
                                    !.nreq = IF s.nreq < MaxReq THEN s.nreq + 1
                                             ELSE MaxReq,
                                    !.first = IF s.nreq = 0 THEN Sent(req)
                                              ELSE s.first,
                                    !.last = req]]
    /\ UNCHANGED <<baseUrl, creds, preIssued, crashed, remote>>

(***************************************************************************)
(* The remote answers and doRequest handles the answer (client.go:159-195).*)
(***************************************************************************)
Receive(p) ==
    /\ ~crashed
    /\ scr[p].pc = "await"
    /\ \E resp \in Answers(remote, scr[p].endpoint) :
          LET o == doRequest(resp, baseUrl)
          IN  /\ baseUrl' = o.baseUrl
              /\ crashed' = (o.kind = "panic")
              /\ scr' = [scr EXCEPT ![p] =
                           [@ EXCEPT !.got = resp, !.out = o,
                                     !.pc = IF o.kind = "retry" THEN "send"
                                            ELSE IF o.kind = "panic" THEN "panic"
                                            ELSE "ret"]]
    /\ UNCHANGED <<creds, preIssued, remote>>

(***************************************************************************)
(* Authenticate after doRequest, and Collect up to the next request        *)
(* (client.go:212-222, metrics.go:51-56).                                  *)
(***************************************************************************)
ReturnAuth(p) ==
    /\ ~crashed
    /\ scr[p].pc = "ret" /\ scr[p].op = "auth"
    /\ LET s == scr[p]
           a == Authenticate(s.out)
           l == Logged(s, LogEntry("auth", NoConn, a.failed, NoGraph, <<>>))
       IN  IF a.failed
           THEN /\ scr' = [scr EXCEPT ![p] = Finish(l)]
                /\ creds' = creds
           ELSE /\ scr' = [scr EXCEPT ![p] =
                             CallDoRequest([l EXCEPT !.login = DecodeAuth(s.out.data)],
                                           "conns", "GET", "llu/connections",
                                           NilReader)]
                /\ creds' = a.creds
    /\ UNCHANGED <<baseUrl, preIssued, crashed, remote>>

\* Collect, had its loop started at the last connection of the list
ReturnConnsFromLast(p) ==
    /\ ~crashed
    /\ scr[p].pc = "ret" /\ scr[p].op = "conns"
    /\ LET s == scr[p]
           c == GetConnections(s.out)
           l == Logged([s EXCEPT !.conns = c.conns],
                       LogEntry("conns", NoConn, c.failed, NoGraph, <<>>))
       IN  scr' = [scr EXCEPT ![p] =
                     IF c.failed \/ Len(c.conns) = 0
                     THEN Finish(l)
                     ELSE CallDoRequest([l EXCEPT !.idx = Len(c.conns)], "graph", "GET",
                                        GraphEndpoint(c.conns[Len(c.conns)].PatientId),
                                        NilReader)]
    /\ UNCHANGED <<baseUrl, creds, preIssued, crashed, remote>>

(***************************************************************************)
(* GetConnections after doRequest, and Collect up to the first fetch       *)
(* (client.go:228-237, metrics.go:56-62, 68).                              *)
(***************************************************************************)
ReturnConns(p) ==
    /\ ~crashed
    /\ scr[p].pc = "ret" /\ scr[p].op = "conns"
    /\ LET s == scr[p]
           c == GetConnections(s.out)
           l == Logged([s EXCEPT !.conns = c.conns],
                       LogEntry("conns", NoConn, c.failed, NoGraph, <<>>))
       IN  scr' = [scr EXCEPT ![p] =
                     IF c.failed \/ Len(c.conns) = 0
                     THEN Finish(l)
                     ELSE CallDoRequest([l EXCEPT !.idx = 1], "graph", "GET",
                                        GraphEndpoint(c.conns[1].PatientId),
                                        NilReader)]
    /\ UNCHANGED <<baseUrl, creds, preIssued, crashed, remote>>

(***************************************************************************)
(* collectGlucose after the fetch, and the loop of Collect up to the next  *)
(* fetch (client.go:244-253, metrics.go:61-63, 68-114).                    *)
(***************************************************************************)
ReturnGraph(p) ==
    /\ ~crashed
    /\ scr[p].pc = "ret" /\ scr[p].op = "graph" /\ scr[p].call = "collect"
    /\ LET s == scr[p]
           conn == s.conns[s.idx]
           r == getGraphData(s.out)
           emitted == collectGlucose(conn, r)
           l == Logged([s EXCEPT !.obs = @ \o emitted],
                       LogEntry("graph", conn, r.failed, r.data, emitted))
       IN  scr' = [scr EXCEPT ![p] =
                     IF MoreConnections(s.conns, s.idx, r)
                     THEN CallDoRequest([l EXCEPT !.idx = s.idx + 1], "graph", "GET",
                                        GraphEndpoint(s.conns[s.idx + 1].PatientId),
                                        NilReader)
                     ELSE Finish(l)]
    /\ UNCHANGED <<baseUrl, creds, preIssued, crashed, remote>>

(***************************************************************************)
(* GetLatestReading after getGraphData (client.go:258-262): the pointer to *)
(* the current reading is dereferenced without a nil check.                *)
(***************************************************************************)
ReturnLatest(p) ==
    /\ ~crashed
    /\ scr[p].pc = "ret" /\ scr[p].op = "graph" /\ scr[p].call = "latest"
    /\ LET s == scr[p]
           r == getGraphData(s.out)
           l == Logged(s, LogEntry("latest", s.conns[1], r.failed, r.data, <<>>))
           nilDeref == (~r.failed) /\ ~r.data.hasReading
       IN  /\ scr' = [scr EXCEPT ![p] =
                        IF nilDeref THEN [s EXCEPT !.pc = "panic"] ELSE Finish(l)]
           /\ crashed' = nilDeref
    /\ UNCHANGED <<baseUrl, creds, preIssued, remote>>

Step(p) ==
    \/ Send(p)
    \/ Receive(p)
    \/ ReturnAuth(p)
    \/ ReturnConns(p)
    \/ ReturnGraph(p)
    \/ ReturnLatest(p)

Next ==
    \/ \E p \in Sequential : CollectStart(p)
    \/ \E p \in Sequential : LatestStart(p)
    \/ \E p \in Sequential : Cancel(p)
    \/ \E p \in Sequential : Step(p)

Spec == Init /\ [][Next]_vars

\* a goroutine that can take a step takes it, and the remote answers every
\* request; nothing obliges anybody to start a scrape
FairSpec == Spec /\ \A p \in Sequential : WF_vars(Step(p))

(***************************************************************************)
(* Overlapping scrapes: the registry calls Collect from two goroutines on  *)
(* the one client, which has no lock (client.go:38-47); each goroutine     *)
(* scrapes once, the client starts without credentials.  The fields of the *)
(* client are read and written a word at a time: a step is atomic.         *)
(***************************************************************************)
ConcurrentCollect(p) ==
    /\ scr[p].pc = "idle"
    /\ CollectStart(p)

ConcInit ==
    /\ baseUrl = getUrl("")
    /\ preIssued = FALSE
    /\ creds = NoCreds
    /\ crashed = FALSE
    /\ scr = [p \in Procs |-> IdleScrape]
    /\ remote = OverlapRemote

ConcNext ==
    \/ \E p \in Procs : ConcurrentCollect(p)
    \/ \E p \in Procs : Send(p)
    \/ \E p \in Procs : Receive(p)
    \/ \E p \in Procs : ReturnAuth(p)
    \/ \E p \in Procs : ReturnConns(p)
    \/ \E p \in Procs : ReturnGraph(p)

ConcSpec == ConcInit /\ [][ConcNext]_vars

(***************************************************************************)
(* Successive scrapes of an authenticated client against a remote that     *)
(* answers each endpoint the same way every time.                          *)
(***************************************************************************)
\* Collect, had it kept the connection list of the scrape before
CollectAgainCached(p) ==
    /\ ~crashed
    /\ scr[p].pc = "done" /\ scr[p].call = "collect"
    /\ LET s == [IdleScrape EXCEPT !.call = "collect", !.heldAtStart = creds.held,
                                   !.conns = scr[p].conns,
                                   !.prev = [set |-> TRUE, log |-> scr[p].log,
                                             obs |-> scr[p].obs]]
       IN  scr' = [scr EXCEPT ![p] =
                     IF Len(s.conns) = 0
                     THEN Finish(s)
                     ELSE CallDoRequest([s EXCEPT !.idx = 1], "graph", "GET",
                                        GraphEndpoint(s.conns[1].PatientId),
                                        NilReader)]
    /\ UNCHANGED <<baseUrl, creds, preIssued, crashed, remote>>

\* Collect called again after a scrape (metrics.go:47-56): the collector
\* has no field but the client, so nothing of the scrape before is there;
\* prev is the observer's record of it
CollectAgain(p) ==
    /\ ~crashed
    /\ scr[p].pc = "done" /\ scr[p].call = "collect"
    /\ LET s == [IdleScrape EXCEPT !.call = "collect", !.heldAtStart = creds.held,
                                   !.prev = [set |-> TRUE, log |-> scr[p].log,
                                             obs |-> scr[p].obs]]
       IN  scr' = [scr EXCEPT ![p] =
                     IF ~IsAuthenticated(creds)
                     THEN CallDoRequest(s, "auth", "POST", "llu/auth/login",
                                        Buffer(LoginBody))
                     ELSE CallDoRequest(s, "conns", "GET", "llu/connections",
                                        NilReader)]
    /\ UNCHANGED <<baseUrl, creds, preIssued, crashed, remote>>

\* what the remote answers to the listing and to a fetch in these scrapes
RepeatListings ==
    {NetworkError, Envelope(2, ErrorObj("rejected"), Data("none"))}
    \cup {Envelope(0, NilError, ConnsData(q)) : q \in ConnectionLists}

RepeatFetches ==
    {NetworkError,
     Envelope(0, NilError, GraphPayload(TRUE, RawCurrent, RawSeries(MaxHist))),
     Envelope(0, NilError, GraphPayload(FALSE, RawCurrent, RawSeries(1))),
     Envelope(0, NilError, GraphPayload(TRUE, RawMalformed, RawSeries(1)))}

\* a remote that answers the listing with l and the fetch of each
\* connection with f's response for it
FixedRemote(l, f) ==
    Remote("fixed", [e \in Endpoints |->
                        IF e = ConnectionsEndpoint THEN l
                        ELSE IF e \in GraphEndpoints THEN f[e]
                        ELSE NetworkError])

RepeatInit ==
    /\ baseUrl = getUrl("")
    /\ preIssued = TRUE
    /\ creds \in {WithExpiringCredentials(PreUserId, PreToken, e) : e \in Expiries}
    /\ crashed = FALSE
    /\ scr = [p \in Procs |-> IdleScrape]
    /\ remote \in {FixedRemote(l, f) :
                      l \in RepeatListings, f \in [GraphEndpoints -> RepeatFetches]}

RepeatNext ==
    \/ \E p \in Sequential : CollectStart(p)
    \/ \E p \in Sequential : CollectAgain(p)
    \/ \E p \in Sequential : Send(p)
    \/ \E p \in Sequential : Receive(p)
    \/ \E p \in Sequential : ReturnConns(p)
    \/ \E p \in Sequential : ReturnGraph(p)

RepeatSpec == RepeatInit /\ [][RepeatNext]_vars

(***************************************************************************)
(* Time parsing put to the test: a scrape of one connection whose graph    *)
(* data carries one timestamp drawn from Timestamps, as the current        *)
(* reading or as a historic entry.                                         *)
(***************************************************************************)
Timestamps ==
    {RawTime(mon, day, year, hour, min, sec, pm) :
        mon \in {0, 1, 2, 9, 12, 13}, day \in {0, 1, 28, 29, 30, 31, 32},
        year \in {2024, 2025}, hour \in {0, 1, 11, 12, 13},
        min \in {59, 60}, sec \in {3, 60}, pm \in BOOLEAN}

ProbePayloads ==
    {GraphPayload(TRUE, RawMeasurement(ts, 104, 4), <<>>) : ts \in Timestamps}
    \cup {GraphPayload(FALSE, RawCurrent, <<RawMeasurement(ts, 97, 3)>>) :
             ts \in Timestamps}

ProbeEndpoint == GraphEndpoint(ConnOf(1).PatientId)

ParseInit ==
    /\ baseUrl = getUrl("")
    /\ preIssued = TRUE
    /\ creds = WithExpiringCredentials(PreUserId, PreToken, "future")
    /\ crashed = FALSE
    /\ scr = [p \in Procs |-> IdleScrape]
    /\ remote \in {FixedRemote(Envelope(0, NilError, ConnsData(<<ConnOf(1)>>)),
                                [e \in GraphEndpoints |-> Envelope(0, NilError, d)]) :
                      d \in ProbePayloads}

ParseNext ==
    \/ \E p \in Sequential : CollectStart(p)
    \/ \E p \in Sequential : Send(p)
    \/ \E p \in Sequential : Receive(p)
    \/ \E p \in Sequential : ReturnConns(p)
    \/ \E p \in Sequential : ReturnGraph(p)

ParseSpec == ParseInit /\ [][ParseNext]_vars

(***************************************************************************)
(* Properties.                                                             *)
(***************************************************************************)
Last(q) == q[Len(q)]

\* goroutine p is inside a scrape
InScrape(p) == scr[p].call = "collect" /\ scr[p].pc \in {"send", "await", "ret"}

\* the entries of a log that are fetches of graph data by the collector
Fetches(log) == SelectSeq(log, LAMBDA e : e.op = "graph")

RECURSIVE Concat(_)
\* the concatenation of a sequence of sequences
Concat(qs) == IF qs = <<>> THEN <<>> ELSE Head(qs) \o Concat(Tail(qs))

\* C1: every client operation sends at most two requests: the original one and
\* at most one automatic re-issue after a region redirect.
C1_AtMostOneRetry ==
    \A p \in Procs : scr[p].nreq <= 2

\* C2: the request re-issued after a region redirect is the same request as the
\* original: same method, same endpoint, same body.
C2_RetrySameRequest ==
    \A p \in Procs :
        scr[p].nreq >= 2 => Sent(scr[p].last) = scr[p].first

\* C3: every scrape terminates, whatever the remote answers to each request
\* (a scrape in progress leads to a scrape that has returned; the death of the
\* process is set aside here, so that what refutes the property is a scrape
\* that runs forever).
C3_ScrapeTerminates ==
    \A p \in Sequential :
        InScrape(p) ~> (scr[p].pc = "done" \/ crashed)

\* an envelope with a non-zero status
Rejected(resp) == resp.http = "200" /\ resp.json /\ resp.status # 0

\* C4: an envelope with a non-zero status makes the operation return a
\* rejection error carrying the remote's message; the payload is not passed on
\* for decoding, handleRedirect does not run, and the base URL and the
\* credentials stay as they were.
C4_NonZeroStatusRejected ==
    [][\A p \in Procs :
          (scr[p].pc = "await" /\ Rejected(scr'[p].got))
             => /\ scr'[p].pc = "ret"
                /\ scr'[p].out.kind = "error"
                /\ scr'[p].out.err = "API error"
                /\ scr'[p].out.message = scr'[p].got.error.message
                /\ scr'[p].out.data = Data("none")
                /\ ~scr'[p].out.inspected
                /\ baseUrl' = baseUrl
                /\ creds' = creds]_vars

\* C5: no client operation and no scrape ends in a panic.
C5_NeverPanics ==
    ~crashed

\* a status-0 envelope that signals a redirect without a region
EmptyRedirect(resp) ==
    /\ resp.http = "200" /\ resp.json /\ resp.status = 0
    /\ DecodesIntoStruct(resp.data) /\ resp.data.redirect /\ resp.data.region = ""

\* C6: a status-0 envelope signalling a redirect with an empty region makes
\* doRequest return an error with the base URL unchanged and no request
\* re-issued, and the operation that called it fails.
C6_EmptyRegionFails ==
    [][\A p \in Procs :
          /\ (scr[p].pc = "await" /\ EmptyRedirect(scr'[p].got))
                => /\ scr'[p].pc = "ret"
                   /\ scr'[p].out.kind = "error"
                   /\ scr'[p].nreq = scr[p].nreq
                   /\ baseUrl' = baseUrl
          /\ (scr[p].pc = "ret" /\ EmptyRedirect(scr[p].got) /\ scr'[p].pc # "ret")
                => /\ scr'[p].log # <<>>
                   /\ Last(scr'[p].log).failed
                   /\ Len(scr'[p].log) = Len(scr[p].log) + 1
                   /\ scr'[p].nreq = 0 \/ scr'[p].pc = "done"
                   /\ baseUrl' = baseUrl]_vars

\* C6 witness: an operation sent to the redirected host "de" has just been
\* answered by a redirect without a region, and doRequest has returned
C6_Witness ==
    \E p \in Procs :
        /\ scr[p].pc = "ret"
        /\ EmptyRedirect(scr[p].got)
        /\ scr[p].out.kind = "error"
        /\ baseUrl = getUrl("de")

\* C7: a fetched connection without a current reading and with n historic
\* points contributes exactly n observations, all historic ones.
C7_NoReadingStillHistoric ==
    \A p \in Procs :
        \A i \in 1..Len(scr[p].log) :
            LET e == scr[p].log[i]
            IN  (e.op = "graph" /\ ~e.failed /\ ~e.data.hasReading)
                   => /\ Len(e.emitted) = Len(e.data.GraphData)
                      /\ \A k \in 1..Len(e.emitted) :
                            e.emitted[k].desc = "glucose_librelink_historic_level"

\* authenticate() was called in p's scrape
AuthCalled(p) ==
    \/ scr[p].op = "auth"
    \/ \E i \in 1..Len(scr[p].log) : scr[p].log[i].op = "auth"

\* C8: a scrape calls authenticate() iff the client held no credentials when
\* the scrape started (never, for a client built with pre-issued credentials);
\* when authenticate() or listConnections() returns an error the scrape has
\* returned, with no later operation and no observation.
C8_AuthOnlyWhenNeeded ==
    \A p \in Procs :
        scr[p].call = "collect" =>
            /\ AuthCalled(p) <=> ~scr[p].heldAtStart
            /\ preIssued => ~AuthCalled(p)
            /\ \A i \in 1..Len(scr[p].log) :
                  (scr[p].log[i].op \in {"auth", "conns"} /\ scr[p].log[i].failed)
                     => /\ i = Len(scr[p].log)
                        /\ scr[p].pc = "done"
                        /\ scr[p].obs = <<>>

\* C8 witness: a scrape of an unauthenticated client has logged in and then
\* failed to list the connections
C8_Witness ==
    \E p \in Procs :
        /\ scr[p].call = "collect" /\ scr[p].pc = "done"
        /\ ~scr[p].heldAtStart
        /\ Len(scr[p].log) = 2
        /\ scr[p].log[1].op = "auth" /\ ~scr[p].log[1].failed
        /\ scr[p].log[2].op = "conns" /\ scr[p].log[2].failed

\* the connection list was obtained in p's scrape
Listed(p) ==
    \E i \in 1..Len(scr[p].log) : scr[p].log[i].op = "conns" /\ ~scr[p].log[i].failed

\* C9: a scrape that has returned after listing the connections has fetched
\* every connection of the list, in order; its observations are, connection
\* after connection, nothing for a failed fetch and for a fetch that succeeded
\* what that connection's data alone gives.
C9_FailureIsolation ==
    \A p \in Procs :
        (scr[p].call = "collect" /\ scr[p].pc = "done" /\ Listed(p)) =>
            LET f == Fetches(scr[p].log)
            IN  /\ Len(f) = Len(scr[p].conns)
                /\ \A i \in 1..Len(f) : f[i].conn = scr[p].conns[i]
                /\ scr[p].obs =
                      Concat([i \in 1..Len(f) |->
                                 IF f[i].failed THEN <<>>
                                 ELSE collectGlucose(scr[p].conns[i],
                                                     [failed |-> FALSE,
                                                      data |-> f[i].data])])

\* C9 witness: of two connections the first fetch failed and the second gave
\* observations
C9_Witness ==
    \E p \in Procs :
        /\ scr[p].call = "collect" /\ scr[p].pc = "done"
        /\ Len(scr[p].conns) = 2
        /\ Len(Fetches(scr[p].log)) = 2
        /\ Fetches(scr[p].log)[1].failed
        /\ ~Fetches(scr[p].log)[2].failed
        /\ Len(scr[p].obs) > 0
        /\ \A k \in 1..Len(scr[p].obs) :
              scr[p].obs[k].patient_id = scr[p].conns[2].PatientId

\* the observations C10 requires of a connection with a current reading
Expected(conn, g) ==
    LET name == conn.FirstName \o " " \o conn.LastName
    IN  <<[desc |-> "glucose_librelink_level_mmoll", ts |-> g.reading.Timestamp,
           value |-> g.reading.Value,
           patient_id |-> conn.PatientId, patient_name |-> name],
          [desc |-> "glucose_librelink_trend", ts |-> g.reading.Timestamp,
           value |-> g.reading.TrendArrow,
           patient_id |-> conn.PatientId, patient_name |-> name]>>
        \o [i \in 1..Len(g.GraphData) |->
              [desc |-> "glucose_librelink_historic_level",
               ts |-> g.GraphData[i].Timestamp, value |-> g.GraphData[i].Value,
               patient_id |-> conn.PatientId, patient_name |-> name]]

\* C10: in a scrape of an unauthenticated client that logged in, each fetched
\* connection with a current reading and n historic points contributes 2 + n
\* observations: the level and the trend at the reading's timestamp, then the
\* historic entries in payload order at their own timestamps, all labelled with
\* the connection's patient id and full name; the scrape's observations are
\* the connections' contributions, in order.
C10_ObservationsPerConnection ==
    \A p \in Procs :
        (scr[p].call = "collect" /\ ~scr[p].heldAtStart) =>
            LET f == Fetches(scr[p].log)
            IN  /\ \A i \in 1..Len(f) :
                      (~f[i].failed /\ f[i].data.hasReading)
                         => /\ f[i].emitted = Expected(f[i].conn, f[i].data)
                            /\ Len(f[i].emitted) = 2 + Len(f[i].data.GraphData)
                /\ scr[p].obs = Concat([i \in 1..Len(f) |-> f[i].emitted])

\* C10 witness: login, one connection with a current reading and three
\* historic points, five observations
C10_Witness ==
    \E p \in Procs :
        /\ scr[p].call = "collect" /\ scr[p].pc = "done"
        /\ ~scr[p].heldAtStart
        /\ scr[p].log[1].op = "auth" /\ ~scr[p].log[1].failed
        /\ Len(scr[p].conns) = 1
        /\ Len(Fetches(scr[p].log)) = 1
        /\ ~Fetches(scr[p].log)[1].failed
        /\ Fetches(scr[p].log)[1].data.hasReading
        /\ Len(Fetches(scr[p].log)[1].data.GraphData) = 3
        /\ Len(scr[p].obs) = 5

\* C11: once the caller's cancellation signal has fired during a scrape, the
\* request in flight is aborted, no further request is sent, and the
\* observations are those of the connections completed before the signal.
C11_HonorsCancellation ==
    [][\A p \in Procs :
          (scr[p].cancelled /\ scr'[p].cancelled)
             => /\ ~(scr[p].pc = "send" /\ scr'[p].pc = "await")
                /\ scr[p].pc = "await" => scr'[p].out.kind = "error"
                /\ scr'[p].obs = scr[p].obs]_vars

\* doRequest returned a login payload that names the user and carries a token
CompleteLogin(out) ==
    /\ out.kind = "return"
    /\ out.data.shape = "auth"
    /\ out.data.userId # "" /\ out.data.token # ""

\* C12: authenticate() stores the credentials of the response (its token, the
\* hash of its user id) when it succeeds, and it succeeds only on a complete
\* login payload; on a network failure, a non-success status or a malformed or
\* incomplete payload it returns an error and leaves the credentials as they
\* were.
C12_StoresIffSucceeds ==
    [][\A p \in Procs :
          (scr[p].pc = "ret" /\ scr[p].op = "auth" /\ scr'[p].pc # "ret")
             => IF CompleteLogin(scr[p].out)
                THEN /\ ~Last(scr'[p].log).failed
                     /\ creds'.held
                     /\ creds'.token = scr[p].out.data.token
                     /\ creds'.id = Sha256Hex(scr[p].out.data.userId)
                ELSE /\ Last(scr'[p].log).failed
                     /\ creds' = creds]_vars

\* C13: isAuthenticated() answers true exactly when the client holds
\* credentials, whatever their expiry (past and zero included): a scrape
\* starts with the listing when credentials are held and with the login when
\* they are not, and the check changes neither the credentials nor the base
\* URL.
C13_AuthenticatedIffHeld ==
    [][\A p \in Procs :
          (scr[p].pc \in {"idle", "done"} /\ scr'[p].pc = "send"
              /\ scr'[p].call = "collect")
             => /\ IsAuthenticated(creds) <=> creds.held
                /\ (scr'[p].op = "conns") <=> creds.held
                /\ (scr'[p].op = "auth") <=> ~creds.held
                /\ creds' = creds
                /\ baseUrl' = baseUrl]_vars

\* C13 witness: a scrape of a client whose credentials expired in the past
\* has started with the listing
C13_Witness ==
    \E p \in Procs :
        /\ scr[p].call = "collect" /\ scr[p].pc = "send" /\ scr[p].nreq = 0
        /\ scr[p].op = "conns" /\ scr[p].log = <<>>
        /\ creds.held /\ creds.expires = "past"

\* the goroutines whose login has succeeded
LoggedIn == {p \in Procs : scr[p].login.ok}

\* C14: when two overlapping scrapes of a client without credentials have
\* both returned, nothing has crashed and the client holds the credentials of
\* one of the logins that succeeded (none if none did).
C14_OverlappingLogins ==
    (\A p \in Procs : scr[p].pc = "done") =>
        /\ ~crashed
        /\ LoggedIn = {} => creds = NoCreds
        /\ LoggedIn # {} =>
              \E p \in LoggedIn :
                  creds = NewLibreLinkCreds(scr[p].login.userId, scr[p].login.ticket)

\* C14 witness: both scrapes have logged in, were issued different
\* credentials, and have returned
C14_Witness ==
    /\ \A p \in Procs : scr[p].pc = "done" /\ scr[p].login.ok
    /\ scr[1].login.userId = "user-1"
    /\ scr[2].login.userId = "user-2"
    /\ creds.held

\* C15: a scrape of an authenticated client that follows another one and is
\* given the same answers lists the connections again, fetches every listed
\* connection again and emits the same observations in the same order: its
\* operations and its observations are those of the scrape before.
C15_NoCaching ==
    \A p \in Procs :
        (scr[p].pc = "done" /\ scr[p].prev.set) =>
            /\ scr[p].log = scr[p].prev.log
            /\ scr[p].obs = scr[p].prev.obs
            /\ Len(scr[p].log) >= 1
            /\ scr[p].log[1].op = "conns"
            /\ Listed(p) => Len(Fetches(scr[p].log)) = Len(scr[p].conns)

\* C15 witness: the second scrape has fetched two connections and emitted
\* observations
C15_Witness ==
    \E p \in Procs :
        /\ scr[p].pc = "done" /\ scr[p].prev.set
        /\ Len(scr[p].conns) = 2
        /\ Len(Fetches(scr[p].log)) = 2
        /\ Len(scr[p].obs) > 2

\* C16: every request sent carries the product and the version header; it
\* carries the bearer token and the hashed account id when the client holds
\* credentials as the request is built and neither of them when it does not,
\* and it is sent either way.
C16_RequestHeaders ==
    [][\A p \in Procs :
          (scr[p].pc = "send" /\ scr'[p].nreq # scr[p].nreq)
             => /\ scr'[p].pc = "await"
                /\ scr'[p].last.product = "llu.android"
                /\ scr'[p].last.version = "4.16.0"
                /\ scr'[p].last.hasAuth <=> creds.held
                /\ creds.held
                      => /\ scr'[p].last.authorization = "Bearer " \o creds.token
                         /\ scr'[p].last.accountId = creds.id
                         /\ creds.id # <<>>
                /\ ~creds.held
                      => /\ scr'[p].last.authorization = ""
                         /\ scr'[p].last.accountId = <<>>]_vars

\* C16 witness: the login of a client without credentials is on the wire
\* without the two authentication headers
C16_Witness ==
    \E p \in Procs :
        /\ scr[p].pc = "await" /\ scr[p].op = "auth"
        /\ ~creds.held
        /\ ~scr[p].last.hasAuth
        /\ scr[p].last.version = "4.16.0"

\* a timestamp of the format M/D/YYYY h:mm:ss AM|PM: a day of the calendar
\* and a time of the 12-hour clock
WellFormed(r) ==
    /\ r.mon \in 1..12
    /\ r.day \in 1..DaysIn(r.mon, r.year)
    /\ r.hour \in 1..12
    /\ r.min \in 0..59
    /\ r.sec \in 0..59

\* the UTC instant a well-formed timestamp denotes
Instant(r) ==
    [year |-> r.year, mon |-> r.mon, day |-> r.day,
     hour |-> (r.hour % 12) + (IF r.pm THEN 12 ELSE 0),
     min |-> r.min, sec |-> r.sec]

\* the graph data the remote of ParseSpec holds
ProbedData == remote.answers[ProbeEndpoint].data

\* the timestamp under test: that of the historic entry if there is one,
\* else that of the current reading
ProbedTimestamp ==
    IF ProbedData.hist = <<>> THEN ProbedData.reading.ts ELSE ProbedData.hist[1].ts

\* C17: a measurement with a malformed timestamp fails to decode, so that no
\* decoded measurement carries the zero time in its place, and a well-formed
\* timestamp M/D/YYYY h:mm:ss AM|PM decodes to exactly the UTC instant it
\* denotes.
C17_ParseDate ==
    \A p \in Procs :
        \A i \in 1..Len(scr[p].log) :
            LET e == scr[p].log[i]
            IN  e.op = "graph" =>
                   /\ ~WellFormed(ProbedTimestamp) => e.failed
                   /\ WellFormed(ProbedTimestamp) => ~e.failed
                   /\ ~e.failed =>
                         LET t == IF ProbedData.hist = <<>>
                                  THEN e.data.reading.Timestamp
                                  ELSE e.data.GraphData[1].Timestamp
                         IN  /\ t = Instant(ProbedTimestamp)
                             /\ t # ZeroTime

\* the place of the connection with patient id pid in a list
IndexOf(conns, pid) == CHOOSE i \in 1..Len(conns) : conns[i].PatientId = pid

\* C18: while the fetch for the k-th connection of the list is under way, the
\* fetches ended so far are those of the first k-1 connections, one each and
\* in list order, the request is the one for the k-th connection, and the
\* observations emitted are exactly those of the first k-1 connections, in
\* list order; a scrape that has returned has emitted its observations in the
\* order of the list.
C18_SequentialInOrder ==
    \A p \in Procs :
        /\ (scr[p].call = "collect" /\ scr[p].op = "graph"
               /\ scr[p].pc \in {"send", "await", "ret"})
              => LET f == Fetches(scr[p].log)
                     k == scr[p].idx
                 IN  /\ k \in 1..Len(scr[p].conns)
                     /\ Len(f) = k - 1
                     /\ \A i \in 1..Len(f) : f[i].conn = scr[p].conns[i]
                     /\ scr[p].endpoint
                           = "llu/connections/" \o scr[p].conns[k].PatientId \o "/graph"
                     /\ scr[p].obs = Concat([i \in 1..Len(f) |-> f[i].emitted])
                     /\ \A j \in 1..Len(scr[p].obs) :
                           \E i \in 1..(k - 1) :
                               scr[p].obs[j].patient_id = scr[p].conns[i].PatientId
        /\ scr[p].call = "collect"
              => \A a, b \in 1..Len(scr[p].obs) :
                    a < b => IndexOf(scr[p].conns, scr[p].obs[a].patient_id)
                                <= IndexOf(scr[p].conns, scr[p].obs[b].patient_id)

\* C18 witness: a scrape of the list <<connection 2, connection 1>> has
\* returned with observations of both, those of connection 2 first
C18_Witness ==
    \E p \in Procs :
        /\ scr[p].call = "collect" /\ scr[p].pc = "done"
        /\ Len(scr[p].conns) = 2
        /\ scr[p].conns[1].PatientId = "patient-2"
        /\ Len(Fetches(scr[p].log)) = 2
        /\ scr[p].obs # <<>>
        /\ scr[p].obs[1].patient_id = "patient-2"
        /\ Last(scr[p].obs).patient_id = "patient-1"

\* C19: credentials the client holds are never cleared nor replaced; a scrape
\* that starts with credentials never calls authenticate(), whatever the
\* remote answers, and when the remote rejects its listing it returns with no
\* observation.
C19_SessionNeverRenewed ==
    [][/\ creds.held => creds' = creds
       /\ \A p \in Procs :
             /\ (scr'[p].call = "collect" /\ scr'[p].heldAtStart)
                   => /\ scr'[p].op # "auth"
                      /\ \A i \in 1..Len(scr'[p].log) : scr'[p].log[i].op # "auth"
             /\ (scr[p].call = "collect" /\ scr[p].heldAtStart /\ scr[p].pc = "ret"
                    /\ Rejected(scr[p].got) /\ scr'[p].pc # "ret")
                   => /\ scr'[p].obs = scr[p].obs
                      /\ scr[p].op = "conns"
                            => scr'[p].pc = "done" /\ scr'[p].obs = <<>>]_vars

\* C19 witness: the listing of a scrape that started with credentials whose
\* expiry has passed is rejected by the remote
C19_Witness ==
    \E p \in Procs :
        /\ scr[p].call = "collect" /\ scr[p].heldAtStart
        /\ scr[p].pc = "ret" /\ scr[p].op = "conns"
        /\ Rejected(scr[p].got)
        /\ scr[p].out.kind = "error"
        /\ creds.held /\ creds.expires = "past"

\* a status-0 envelope that signals a redirect to a region
RegionRedirect(resp) ==
    /\ resp.http = "200" /\ resp.json /\ resp.status = 0
    /\ resp.data.shape = "redirect" /\ resp.data.redirect /\ resp.data.region # ""

\* the host of a region
RegionHost(region) == "https://api-" \o region \o ".libreview.io"

\* C20: the base URL is the bare host at first; an answer changes it iff it is
\* a status-0 envelope that signals a redirect to a non-empty region, and
\* then to the host of that region; no other step changes it, and every
\* request is sent to the base URL of the moment, in later operations and
\* later scrapes too.
C20_BaseUrlFrame ==
    /\ baseUrl = "https://api.libreview.io"
    /\ [][/\ \A p \in Procs :
                /\ (scr[p].pc = "await" /\ scr'[p].pc # "await"
                       /\ RegionRedirect(scr'[p].got))
                      => baseUrl' = RegionHost(scr'[p].got.data.region)
                /\ (scr[p].pc = "await" /\ scr'[p].pc # "await"
                       /\ ~RegionRedirect(scr'[p].got))
                      => baseUrl' = baseUrl
                /\ (scr[p].pc = "send" /\ scr'[p].pc = "await")
                      => scr'[p].last.url = baseUrl \o "/" \o scr[p].endpoint
          /\ (\A p \in Procs : ~(scr[p].pc = "await" /\ scr'[p].pc # "await"))
                => baseUrl' = baseUrl]_vars

\* C20 witness: the login was redirected to region "de", and the listing
\* that follows it is on its way to the host of that region
C20_Witness ==
    \E p \in Procs :
        /\ scr[p].pc = "await" /\ scr[p].op = "conns"
        /\ Len(scr[p].log) = 1 /\ scr[p].log[1].op = "auth"
        /\ scr[p].nreq = 1
        /\ baseUrl = "https://api-de.libreview.io"
        /\ scr[p].last.url = "https://api-de.libreview.io/llu/connections"

=============================================================================
